---------------------------- MODULE Spec2Model ----------------------------
(***************************************************************************)
(* The serial-device session manager of the TriageID frontend:             *)
(* SerialProvider in webapp/frontend/contexts/serial-context.tsx.          *)
(*                                                                         *)
(* JavaScript runs one continuation at a time, so every action below is    *)
(* one synchronous run of the code between two awaits: the start of a      *)
(* public call up to its first await, or the resumption of a call after    *)
(* an awaited platform promise settled.  The platform (Web Serial, the     *)
(* streams of a port) is the environment: every awaited promise may        *)
(* resolve or reject, within what the platform allows.                     *)
(*                                                                         *)
(* One connect() call and one disconnect() call are in flight at a time.   *)
(*                                                                         *)
(* Text is a sequence of one-character strings; bytes are numbers.         *)
(***************************************************************************)
EXTENDS Integers, Sequences, FiniteSets, TLC

(***************************************************************************)
(* Bounds of the model.                                                    *)
(***************************************************************************)
\* longest unterminated text the read loop keeps in readBuffer
MaxBuffer == 11

(***************************************************************************)
(* Values.                                                                 *)
(***************************************************************************)
\* null / undefined of a ref, a callback or an error
Null == "null"
\* an absent (undefined) numeric field of getInfo() or of the stored filter
Undefined == -1

\* The serial ports of the machine.  p1 is a USB reader; p2 is a port
\* without USB ids (getInfo() returns {} for it).
Ports == {"p1", "p2"}

getInfo(port) ==
    IF port = "p1" THEN [usbVendorId |-> 1, usbProductId |-> 1]
    ELSE [usbVendorId |-> Undefined, usbProductId |-> Undefined]

\* The filter of p1, and a stale filter that no port of the machine matches.
Filters ==
    { [usbVendorId |-> 1, usbProductId |-> 1],
      [usbVendorId |-> 1, usbProductId |-> 2] }

\* What document.cookie may hold under the key triageid_serial_filter: no
\* cookie, a value JSON.parse rejects, or a JSON object whose two fields are
\* numbers or missing.
NoCookie == [kind |-> "none", usbVendorId |-> Undefined, usbProductId |-> Undefined]

CookieOf(filter) ==
    [kind |-> "json", usbVendorId |-> filter.usbVendorId,
     usbProductId |-> filter.usbProductId]

CookieValues ==
    { NoCookie,
      [kind |-> "garbage", usbVendorId |-> Undefined, usbProductId |-> Undefined],
      [kind |-> "json", usbVendorId |-> 1, usbProductId |-> Undefined] }
    \cup { CookieOf(f) : f \in Filters }

\* the result of a load that finds nothing usable (null in the source)
NoFilter == [usbVendorId |-> Undefined, usbProductId |-> Undefined]

\* What a rejected platform promise carries: an Error with a message, or a
\* value that is no Error.
Rejections ==
    { [isError |-> TRUE, message |-> "NetworkError"],
      [isError |-> FALSE, message |-> ""] }

\* The consumer callbacks a view may register.
Callbacks == {"A", "B"}


(***************************************************************************)
(* Text: TextEncoder, TextDecoder, String.prototype.trim / endsWith /      *)
(* split, and the two regular expressions of the read loop.                *)
(***************************************************************************)
\* UTF-8 of the characters the model uses (one byte each, but "é").
Utf8 ==
    ("U" :> <<85>>) @@ ("s" :> <<115>>) @@ ("e" :> <<101>>) @@ ("r" :> <<114>>) @@
    (" " :> <<32>>) @@ ("I" :> <<73>>) @@ ("D" :> <<68>>) @@ (":" :> <<58>>) @@
    ("\"" :> <<34>>) @@ ("A" :> <<65>>) @@ ("B" :> <<66>>) @@ ("O" :> <<79>>) @@
    ("K" :> <<75>>) @@ ("|" :> <<124>>) @@ ("R" :> <<82>>) @@ ("E" :> <<69>>) @@
    ("\r" :> <<13>>) @@ ("\n" :> <<10>>) @@ ("x" :> <<120>>) @@ ("é" :> <<195, 169>>)

Chars == DOMAIN Utf8

\* U+FFFD, which TextDecoder puts where the bytes are no UTF-8
Replacement == "U+FFFD"

RECURSIVE encode(_)
\* new TextEncoder().encode(text)
encode(text) ==
    IF text = <<>> THEN <<>> ELSE Utf8[Head(text)] \o encode(Tail(text))

IsContinuation(b) == b >= 128 /\ b <= 191
IsLead2(b) == b >= 194 /\ b <= 223

CharOf(bytes) ==
    IF \E c \in Chars : Utf8[c] = bytes
    THEN CHOOSE c \in Chars : Utf8[c] = bytes
    ELSE Replacement

RECURSIVE decode(_)
\* new TextDecoder().decode(value): every chunk is decoded on its own, so a
\* character whose bytes are cut by the end of the chunk is replaced.
decode(bytes) ==
    IF bytes = <<>> THEN <<>>
    ELSE IF Head(bytes) < 128
    THEN <<CharOf(<<Head(bytes)>>)>> \o decode(Tail(bytes))
    ELSE IF IsLead2(Head(bytes)) /\ Len(bytes) >= 2 /\ IsContinuation(bytes[2])
    THEN <<CharOf(<<bytes[1], bytes[2]>>)>> \o decode(Tail(Tail(bytes)))
    ELSE <<Replacement>> \o decode(Tail(bytes))

\* text.endsWith("\n")
endsWithNewline(text) == text # <<>> /\ text[Len(text)] = "\n"

\* mutant: send() that appends the line feed to every text
withTerminator_Always(text) == text \o <<"\n">>

\* text.endsWith("\n") ? text : text + "\n"
withTerminator(text) == IF endsWithNewline(text) THEN text ELSE text \o <<"\n">>

\* \s of a regular expression and the white space trim() removes
IsSpace(c) == c \in {" ", "\r", "\n"}

RECURSIVE trimStart(_)
trimStart(t) ==
    IF t # <<>> /\ IsSpace(Head(t)) THEN trimStart(Tail(t)) ELSE t

RECURSIVE trimEnd(_)
trimEnd(t) ==
    IF t # <<>> /\ IsSpace(t[Len(t)]) THEN trimEnd(SubSeq(t, 1, Len(t) - 1)) ELSE t

\* line.trim()
trim(t) == trimEnd(trimStart(t))

RECURSIVE splitFrom(_, _)
\* readBuffer.split(/\r?\n/), the segment being read is cur
splitFrom(cur, rest) ==
    IF rest = <<>> THEN <<cur>>
    ELSE IF Head(rest) = "\n" THEN <<cur>> \o splitFrom(<<>>, Tail(rest))
    ELSE IF Head(rest) = "\r" /\ Len(rest) >= 2 /\ rest[2] = "\n"
    THEN <<cur>> \o splitFrom(<<>>, Tail(Tail(rest)))
    ELSE splitFrom(Append(cur, Head(rest)), Tail(rest))

split(text) == splitFrom(<<>>, text)

UserIdLiteral == <<"U", "s", "e", "r", " ", "I", "D", ":">>
OkReadLiteral == <<"O", "K", "|", "R", "E", "A", "D", "|">>

StartsAt(t, i, lit) ==
    i + Len(lit) - 1 <= Len(t) /\ SubSeq(t, i, i + Len(lit) - 1) = lit

\* first index >= i of t that holds no white space (Len(t) + 1 if none)
RECURSIVE skipSpaces(_, _)
skipSpaces(t, i) ==
    IF i <= Len(t) /\ IsSpace(t[i]) THEN skipSpaces(t, i + 1) ELSE i

\* first index >= i of t that holds a double quote (0 if none)
RECURSIVE nextQuote(_, _)
nextQuote(t, i) ==
    IF i > Len(t) THEN 0 ELSE IF t[i] = "\"" THEN i ELSE nextQuote(t, i + 1)

\* The match of /User ID:\s*"([^"]*)"/ that starts at index i of t, as the
\* pair of indexes of the two quotes (<<>> if there is none).
UserIdAt(t, i) ==
    IF ~StartsAt(t, i, UserIdLiteral) THEN <<>>
    ELSE LET q == skipSpaces(t, i + Len(UserIdLiteral)) IN
         IF q > Len(t) \/ t[q] # "\"" \/ nextQuote(t, q + 1) = 0 THEN <<>>
         ELSE <<q, nextQuote(t, q + 1)>>

\* t.match(USER_ID_REGEX): <<>> for null, else <<group 1>> of the leftmost match
USER_ID_REGEX(t) ==
    LET starts == { i \in 1..Len(t) : UserIdAt(t, i) # <<>> } IN
    IF starts = {} THEN <<>>
    ELSE LET i == CHOOSE j \in starts : \A k \in starts : j <= k
             m == UserIdAt(t, i)
         IN  <<SubSeq(t, m[1] + 1, m[2] - 1)>>

\* t.match(OK_READ_REGEX), /^OK\|READ\|(.+)$/: the dot matches no line
\* terminator and $ matches at the end of t only.
OK_READ_REGEX(t) ==
    IF /\ StartsAt(t, 1, OkReadLiteral)
       /\ Len(t) > Len(OkReadLiteral)
       /\ \A i \in (Len(OkReadLiteral) + 1)..Len(t) : t[i] \notin {"\r", "\n"}
    THEN <<SubSeq(t, Len(OkReadLiteral) + 1, Len(t))>>
    ELSE <<>>

\* mutant: the extraction of the older hook, which knows the User ID form only
tagIdOf_UserIdOnly(t) ==
    IF USER_ID_REGEX(t) # <<>> THEN <<trim(USER_ID_REGEX(t)[1])>> ELSE <<>>

\* The id the read loop of SerialProvider computes for a trimmed line:
\* <<>> for null, else <<id>>.
tagIdOf(t) ==
    IF USER_ID_REGEX(t) # <<>> THEN <<trim(USER_ID_REGEX(t)[1])>>
    ELSE IF OK_READ_REGEX(t) # <<>> THEN <<trim(OK_READ_REGEX(t)[1])>>
    ELSE <<>>

\* if (id != null && id !== "") onTagReadRef.current?.(id)
dispatches(id) == id # <<>> /\ id[1] # <<>>

\* the non-empty trimmed lines among the segments
RECURSIVE trimmedLines(_)
trimmedLines(segs) ==
    IF segs = <<>> THEN <<>>
    ELSE IF trim(Head(segs)) = <<>> THEN trimmedLines(Tail(segs))
    ELSE <<trim(Head(segs))>> \o trimmedLines(Tail(segs))

\* the ids the loop dispatches for the trimmed lines, in order
RECURSIVE idsOf_Reversed(_)
\* mutant: a loop that gives the ids of a chunk last line first
idsOf_Reversed(lines) ==
    IF lines = <<>> THEN <<>>
    ELSE IF dispatches(tagIdOf(Head(lines)))
    THEN idsOf_Reversed(Tail(lines)) \o <<tagIdOf(Head(lines))[1]>>
    ELSE idsOf_Reversed(Tail(lines))

RECURSIVE idsOf(_)
idsOf(lines) ==
    IF lines = <<>> THEN <<>>
    ELSE IF dispatches(tagIdOf(Head(lines)))
    THEN <<tagIdOf(Head(lines))[1]>> \o idsOf(Tail(lines))
    ELSE idsOf(Tail(lines))

\* lines.pop(): all but the last element
butLast(segs) == SubSeq(segs, 1, Len(segs) - 1)

\* mutant: a loop that keeps no unterminated rest between chunks
lastOf_Dropped(segs) == <<>>

\* lines.pop() || ""
lastOf(segs) == segs[Len(segs)]

\* mutant: a load that checks the vendor id only
getSerialFilterFromCookie_VendorOnly(stored) ==
    IF stored.kind = "json" /\ stored.usbVendorId # Undefined
    THEN [usbVendorId |-> stored.usbVendorId, usbProductId |-> stored.usbProductId]
    ELSE NoFilter

(***************************************************************************)
(* The persisted device filter (the cookie).                               *)
(***************************************************************************)
\* getSerialFilterFromCookie(): the stored filter, or NoFilter (null) when
\* there is no cookie, JSON.parse throws, or a field is no number.
getSerialFilterFromCookie(stored) ==
    IF /\ stored.kind = "json"
       /\ stored.usbVendorId # Undefined
       /\ stored.usbProductId # Undefined
    THEN [usbVendorId |-> stored.usbVendorId, usbProductId |-> stored.usbProductId]
    ELSE NoFilter

\* setSerialFilterCookie(filter): the value document.cookie holds afterwards
setSerialFilterCookie(filter) == CookieOf(filter)

\* clearSerialFilterCookie(): max-age=0 removes the cookie
clearSerialFilterCookie == NoCookie

\* info?.usbVendorId != null && info?.usbProductId != null
hasUsbIds(info) == info.usbVendorId # Undefined /\ info.usbProductId # Undefined

\* mutant: openPortAndRead that does not save the filter
cookieAfterOpen_NoSave(stored, port) == stored

\* the cookie after openPortAndRead(port)
cookieAfterOpen(stored, port) ==
    IF hasUsbIds(getInfo(port)) THEN setSerialFilterCookie(getInfo(port)) ELSE stored

\* navigator.serial.requestPort({filters: [filter]}) offers the ports that
\* match the filter; without a filter it offers every port.
offered(filter) ==
    IF filter = NoFilter THEN Ports
    ELSE { p \in Ports : getInfo(p) = filter }

\* the first port of getPorts() whose ids equal the saved filter (Null if none)
matchingPort(ports, savedFilter) ==
    IF \E p \in ports : getInfo(p) = savedFilter
    THEN CHOOSE p \in ports : getInfo(p) = savedFilter
    ELSE Null

\* e instanceof Error ? e.message : fallback
messageOf(e, fallback) == IF e.isError THEN e.message ELSE fallback

(***************************************************************************)
(* State.                                                                  *)
(***************************************************************************)
VARIABLES
    hasSerial,       \* "serial" in navigator (never changes)
    mounted,         \* SerialProvider is mounted
    cookie,          \* document.cookie under SERIAL_FILTER_COOKIE
    isSupported, isConnected, isReconnecting, error,   \* useState
    onTagReadRef, portRef, readerRef, writerRef, abortRef,   \* useRef
    portOpen,        \* the platform: which ports are open
    loop,            \* per port: the read loop that holds its reader
    readBuffer,      \* per port: readBuffer of that loop
    conn,            \* the connect() call in flight
    disc,            \* the disconnect() call in flight
    auto,            \* the automatic reconnect of the mount effect
    cancelled,       \* its cancelled flag
    out              \* the last output: a send() call and what it wrote or
                     \* raised, or a chunk and the calls of the consumer
                     \* callback the loop made for it

vars ==
    << hasSerial, mounted, cookie, isSupported, isConnected, isReconnecting,
       error, onTagReadRef, portRef, readerRef, writerRef, abortRef, portOpen,
       loop, readBuffer, conn, disc, auto, cancelled, out >>

Call(pc, filter, port) == [pc |-> pc, filter |-> filter, port |-> port]
NoCall == Call("idle", NoFilter, Null)
Idle == [pc |-> "idle", obj |-> Null, from |-> FALSE]
AutoOff == [pc |-> "off", port |-> Null, savedFilter |-> NoFilter]
AutoDone == [pc |-> "done", port |-> Null, savedFilter |-> NoFilter]
NoOutput == [op |-> "none"]

\* The state after the first render and its mount effects (lines 73-89 and
\* 163-169): the capability probe has run, and the automatic reconnect has
\* started when a filter is stored.
InitWith(cookies) ==
    /\ hasSerial \in BOOLEAN
    /\ cookie \in cookies
    /\ mounted = TRUE
    /\ isSupported = hasSerial
    /\ isConnected = FALSE
    /\ error = Null
    /\ onTagReadRef = Null
    /\ portRef = Null
    /\ readerRef = Null
    /\ writerRef = Null
    /\ abortRef = FALSE
    /\ portOpen = [p \in Ports |-> FALSE]
    /\ loop = [p \in Ports |-> "none"]
    /\ readBuffer = [p \in Ports |-> <<>>]
    /\ conn = NoCall
    /\ disc = Idle
    /\ cancelled = FALSE
    /\ out = NoOutput
    /\ IF hasSerial /\ getSerialFilterFromCookie(cookie) # NoFilter
       THEN /\ isReconnecting = TRUE
            /\ auto = [pc |-> "getPorts", port |-> Null,
                       savedFilter |-> getSerialFilterFromCookie(cookie)]
       ELSE /\ isReconnecting = FALSE
            /\ auto = AutoOff

Init == InitWith(CookieValues)

\* The .finally() callback is queued when the .then() or .catch() callback
\* before it returns: it runs before any other continuation or event.
Pending == auto.pc = "finally"

(***************************************************************************)
(* openPortAndRead(port): adopts the port and starts readLoop(), which     *)
(* runs up to its first await: with the abort flag set it leaves at once   *)
(* (break, then finally).  aborted is abortRef.current at the call.        *)
(***************************************************************************)
openPortAndRead(port, aborted) ==
    /\ portRef' = port
    /\ writerRef' = port
    /\ readerRef' = IF aborted THEN Null ELSE port
    /\ isConnected' = TRUE
    /\ error' = Null
    /\ cookie' = cookieAfterOpen(cookie, port)
    /\ loop' = [loop EXCEPT ![port] = IF aborted THEN "none" ELSE "reading"]
    /\ readBuffer' = [readBuffer EXCEPT ![port] = <<>>]

(***************************************************************************)
(* connect()                                                               *)
(***************************************************************************)
UnsupportedMessage == "Web Serial not supported. Use Chrome or Edge."
ConnectionFailed == "Connection failed"
SerialReadError == "Serial read error"

\* the catch block of connect()
connectCatch(e) ==
    /\ cookie' = clearSerialFilterCookie
    /\ error' = messageOf(e, ConnectionFailed)
    /\ isConnected' = FALSE

\* mutant: connect() without the capability check
connect_NoProbe ==
    /\ ~Pending
    /\ mounted
    /\ conn.pc = "idle"
    /\ error' = Null
    /\ abortRef' = FALSE
    /\ conn' = Call("requestPort", getSerialFilterFromCookie(cookie), Null)
    /\ UNCHANGED << hasSerial, mounted, cookie, isSupported, isConnected,
                    isReconnecting, onTagReadRef, portRef, readerRef, writerRef,
                    portOpen, loop, readBuffer, disc, auto, cancelled, out >>

\* connect() up to its first await: the capability check, then
\* requestPort() with the stored filter.
connect ==
    /\ ~Pending
    /\ mounted
    /\ conn.pc = "idle"
    /\ IF ~hasSerial
       THEN /\ error' = UnsupportedMessage
            /\ UNCHANGED << abortRef, conn >>
       ELSE /\ error' = Null
            /\ abortRef' = FALSE
            /\ conn' = Call("requestPort", getSerialFilterFromCookie(cookie), Null)
    /\ UNCHANGED << hasSerial, mounted, cookie, isSupported, isConnected,
                    isReconnecting, onTagReadRef, portRef, readerRef, writerRef,
                    portOpen, loop, readBuffer, disc, auto, cancelled, out >>

\* requestPort() resolved with a port the chooser offered: port.open()
ConnectRequestPortOk(port) ==
    /\ ~Pending
    /\ conn.pc = "requestPort"
    /\ port \in offered(conn.filter)
    /\ conn' = Call("open", NoFilter, port)
    /\ UNCHANGED << hasSerial, mounted, cookie, isSupported, isConnected,
                    isReconnecting, error, onTagReadRef, portRef, readerRef,
                    writerRef, abortRef, portOpen, loop, readBuffer, disc, auto,
                    cancelled, out >>

\* requestPort() rejected (the user closed the chooser, no port offered)
ConnectRequestPortFail(e) ==
    /\ ~Pending
    /\ conn.pc = "requestPort"
    /\ conn' = NoCall
    /\ connectCatch(e)
    /\ UNCHANGED << hasSerial, mounted, isSupported, isReconnecting, onTagReadRef,
                    portRef, readerRef, writerRef, abortRef, portOpen, loop,
                    readBuffer, disc, auto, cancelled, out >>

\* port.open() resolved (the platform opens no port twice): openPortAndRead
ConnectOpenOk ==
    /\ ~Pending
    /\ conn.pc = "open"
    /\ ~portOpen[conn.port]
    /\ portOpen' = [portOpen EXCEPT ![conn.port] = TRUE]
    /\ conn' = NoCall
    /\ openPortAndRead(conn.port, abortRef)
    /\ UNCHANGED << hasSerial, mounted, isSupported, isReconnecting, onTagReadRef,
                    abortRef, disc, auto, cancelled, out >>

\* port.open() rejected
ConnectOpenFail(e) ==
    /\ ~Pending
    /\ conn.pc = "open"
    /\ conn' = NoCall
    /\ connectCatch(e)
    /\ UNCHANGED << hasSerial, mounted, isSupported, isReconnecting, onTagReadRef,
                    portRef, readerRef, writerRef, abortRef, portOpen, loop,
                    readBuffer, disc, auto, cancelled, out >>

(***************************************************************************)
(* The automatic reconnect of the mount effect, and its cleanup.           *)
(***************************************************************************)
\* getPorts() resolved: the first matching port is opened
AutoGetPortsOk(ports) ==
    /\ ~Pending
    /\ auto.pc = "getPorts"
    /\ IF cancelled
       THEN /\ auto' = AutoDone
            /\ UNCHANGED isReconnecting
       ELSE IF matchingPort(ports, auto.savedFilter) # Null
       THEN /\ auto' = [auto EXCEPT !.pc = "open",
                                    !.port = matchingPort(ports, auto.savedFilter)]
            /\ UNCHANGED isReconnecting
       ELSE /\ auto' = AutoDone
            /\ isReconnecting' = FALSE
    /\ UNCHANGED << hasSerial, mounted, cookie, isSupported, isConnected, error,
                    onTagReadRef, portRef, readerRef, writerRef, abortRef, portOpen,
                    loop, readBuffer, conn, disc, cancelled, out >>

\* getPorts() rejected
AutoGetPortsFail ==
    /\ ~Pending
    /\ auto.pc = "getPorts"
    /\ auto' = AutoDone
    /\ isReconnecting' = FALSE
    /\ UNCHANGED << hasSerial, mounted, cookie, isSupported, isConnected, error,
                    onTagReadRef, portRef, readerRef, writerRef, abortRef, portOpen,
                    loop, readBuffer, conn, disc, cancelled, out >>

\* port.open() of the matching port resolved
AutoOpenOk ==
    /\ ~Pending
    /\ auto.pc = "open"
    /\ ~portOpen[auto.port]
    /\ portOpen' = [portOpen EXCEPT ![auto.port] = TRUE]
    /\ auto' = [auto EXCEPT !.pc = "finally"]
    /\ IF ~cancelled
       THEN /\ abortRef' = FALSE
            /\ openPortAndRead(auto.port, FALSE)
       ELSE UNCHANGED << abortRef, portRef, writerRef, readerRef, isConnected,
                         error, cookie, loop, readBuffer >>
    /\ UNCHANGED << hasSerial, mounted, isSupported, isReconnecting, onTagReadRef,
                    conn, disc, cancelled, out >>

\* port.open() of the matching port rejected
AutoOpenFail ==
    /\ ~Pending
    /\ auto.pc = "open"
    /\ auto' = [auto EXCEPT !.pc = "finally"]
    /\ cookie' = clearSerialFilterCookie
    /\ UNCHANGED << hasSerial, mounted, isSupported, isConnected, isReconnecting,
                    error, onTagReadRef, portRef, readerRef, writerRef, abortRef,
                    portOpen, loop, readBuffer, conn, disc, cancelled, out >>

\* mutant: a .finally that leaves isReconnecting as it is
AutoFinally_Keeps ==
    /\ auto.pc = "finally"
    /\ auto' = AutoDone
    /\ UNCHANGED << hasSerial, mounted, cookie, isSupported, isConnected,
                    isReconnecting, error, onTagReadRef, portRef, readerRef,
                    writerRef, abortRef, portOpen, loop, readBuffer, conn,
                    disc, cancelled, out >>

\* .finally(() => { if (!cancelled) setIsReconnecting(false) })
AutoFinally ==
    /\ auto.pc = "finally"
    /\ auto' = AutoDone
    /\ isReconnecting' = IF cancelled THEN isReconnecting ELSE FALSE
    /\ UNCHANGED << hasSerial, mounted, cookie, isSupported, isConnected, error,
                    onTagReadRef, portRef, readerRef, writerRef, abortRef, portOpen,
                    loop, readBuffer, conn, disc, cancelled, out >>

\* SerialProvider unmounts: the cleanup of the mount effect, when the effect
\* returned one.  Calls in flight go on; no new call is made.
Unmount ==
    /\ ~Pending
    /\ mounted
    /\ mounted' = FALSE
    /\ IF auto.pc = "off"
       THEN UNCHANGED << cancelled, isReconnecting >>
       ELSE /\ cancelled' = TRUE
            /\ isReconnecting' = FALSE
    /\ UNCHANGED << hasSerial, cookie, isSupported, isConnected, error,
                    onTagReadRef, portRef, readerRef, writerRef, abortRef, portOpen,
                    loop, readBuffer, conn, disc, auto, out >>

(***************************************************************************)
(* disconnect(): three guarded awaits (reader.cancel(), writer.close(),    *)
(* port.close()), each on the object its ref held when the call was made,  *)
(* each failure swallowed.  from is isConnected at the time of the call.   *)
(***************************************************************************)
\* setIsConnected(false); setError(null): the call returns
disconnectEnd ==
    /\ isConnected' = FALSE
    /\ error' = Null
    /\ disc' = Idle

\* if (portRef.current) { await portRef.current.close() ... }
disconnectPort(from) ==
    IF portRef # Null
    THEN /\ disc' = [pc |-> "portClose", obj |-> portRef, from |-> from]
         /\ UNCHANGED << isConnected, error >>
    ELSE disconnectEnd

\* if (writerRef.current) { await writerRef.current.close() ... }
disconnectWriter(from) ==
    IF writerRef # Null
    THEN /\ disc' = [pc |-> "writerClose", obj |-> writerRef, from |-> from]
         /\ UNCHANGED << isConnected, error >>
    ELSE disconnectPort(from)

\* disconnect() up to its first await.  reader.cancel() closes the stream:
\* the pending read of that reader settles with done (or with an error).
disconnect ==
    /\ ~Pending
    /\ mounted
    /\ disc.pc = "idle"
    /\ abortRef' = TRUE
    /\ IF readerRef # Null
       THEN /\ disc' = [pc |-> "cancel", obj |-> readerRef, from |-> isConnected]
            /\ loop' = [loop EXCEPT ![readerRef] =
                           IF @ = "reading" THEN "cancelled" ELSE @]
            /\ UNCHANGED << isConnected, error >>
       ELSE /\ disconnectWriter(isConnected)
            /\ UNCHANGED loop
    /\ UNCHANGED << hasSerial, mounted, cookie, isSupported, isReconnecting,
                    onTagReadRef, portRef, readerRef, writerRef, portOpen,
                    readBuffer, conn, auto, cancelled, out >>

\* reader.cancel() settled.  The read it ended settled before it, so the
\* loop of that reader has left.
DisconnectAfterCancel ==
    /\ ~Pending
    /\ disc.pc = "cancel"
    /\ loop[disc.obj] # "cancelled"
    /\ readerRef' = Null
    /\ disconnectWriter(disc.from)
    /\ UNCHANGED << hasSerial, mounted, cookie, isSupported, isReconnecting,
                    onTagReadRef, portRef, writerRef, abortRef, portOpen, loop,
                    readBuffer, conn, auto, cancelled, out >>

\* writer.close() settled
DisconnectAfterWriterClose ==
    /\ ~Pending
    /\ disc.pc = "writerClose"
    /\ writerRef' = Null
    /\ disconnectPort(disc.from)
    /\ UNCHANGED << hasSerial, mounted, cookie, isSupported, isReconnecting,
                    onTagReadRef, portRef, readerRef, abortRef, portOpen, loop,
                    readBuffer, conn, auto, cancelled, out >>

\* port.close() settled: closed is whether it resolved.  The platform
\* closes no port whose readable stream is locked by a reader.
DisconnectAfterPortClose(closed) ==
    /\ ~Pending
    /\ disc.pc = "portClose"
    /\ closed => loop[disc.obj] = "none"
    /\ portOpen' = [portOpen EXCEPT ![disc.obj] = IF closed THEN FALSE ELSE @]
    /\ portRef' = Null
    /\ disconnectEnd
    /\ UNCHANGED << hasSerial, mounted, cookie, isSupported, isReconnecting,
                    onTagReadRef, readerRef, writerRef, abortRef, loop,
                    readBuffer, conn, auto, cancelled, out >>

(***************************************************************************)
(* send(text) and setOnTagRead(callback)                                   *)
(***************************************************************************)
\* The texts the callers send: "READ", "READ\n", "", "\n", and a text with
\* a character of two bytes
SendTexts ==
    { <<"R", "E", "A", "D">>, <<"R", "E", "A", "D", "\n">>, <<>>, <<"\n">>,
      <<"é">> }

\* The writer of a port takes a write while the port is open and
\* disconnect() is not closing that writer.
writable(w) == portOpen[w] /\ ~(disc.pc = "writerClose" /\ disc.obj = w)

\* the output of a send() call: the writer it used, the bytes it wrote
\* (none when it made no write or the write was rejected), whether it raised
Sent(text, port, data, raised) ==
    [op |-> "send", text |-> text, port |-> port, data |-> data, raised |-> raised]

\* send(text): no writer, or one write.  written is whether
\* writer.write(data) resolved; a rejected write rejects send().
send(text, written) ==
    /\ ~Pending
    /\ mounted
    /\ IF writerRef = Null
       THEN /\ written = FALSE
            /\ out' = Sent(text, Null, <<>>, FALSE)
       ELSE /\ written => writable(writerRef)
            /\ out' = Sent(text, writerRef,
                           IF written THEN encode(withTerminator(text)) ELSE <<>>,
                           ~written)
    /\ UNCHANGED << hasSerial, mounted, cookie, isSupported, isConnected,
                    isReconnecting, error, onTagReadRef, portRef, readerRef,
                    writerRef, abortRef, portOpen, loop, readBuffer, conn,
                    disc, auto, cancelled >>

\* setOnTagRead(callback)
setOnTagRead(callback) ==
    /\ ~Pending
    /\ mounted
    /\ onTagReadRef' = callback
    /\ UNCHANGED << hasSerial, mounted, cookie, isSupported, isConnected,
                    isReconnecting, error, portRef, readerRef, writerRef, abortRef,
                    portOpen, loop, readBuffer, conn, disc, auto, cancelled, out >>

(***************************************************************************)
(* readLoop(): one action per settled reader.read().                       *)
(***************************************************************************)
\* Lines of the reader, and chunks that cut a line in two.
WireTexts ==
    { UserIdLiteral \o <<" ", "\"", "A", "\"", "\r", "\n">>,
      UserIdLiteral \o <<" ", "\"", "\"", "\n">>,
      OkReadLiteral \o <<"A", "\n">>,
      OkReadLiteral \o <<"\n">>,
      UserIdLiteral \o <<" ", "\"", "A">>,
      <<"\"", "\n">>,
      OkReadLiteral \o UserIdLiteral \o <<" ", "\"", "B", "\"", "\n">>,
      OkReadLiteral \o <<"A", "\r", "B", "\n">>,
      OkReadLiteral \o <<"é", "\n">>,
      UserIdLiteral \o <<" ", "\"", "A", "\"", "\n">> \o OkReadLiteral \o <<"B", "\n">> }

Chunks == { encode(t) : t \in WireTexts }

\* one chunk, for the specifications that do not look at the data
SomeChunk == { encode(OkReadLiteral \o <<"A", "\n">>) }

\* mutant: a loop that calls the callback twice for every id
Dispatched_Twice(port, value, callback, ids) ==
    [op |-> "read", port |-> port, value |-> value, callback |-> callback,
     ids |-> IF callback = Null THEN <<>> ELSE ids \o ids]

\* mutant: a loop that does not look whether a callback is registered
Dispatched_Unchecked(port, value, callback, ids) ==
    [op |-> "read", port |-> port, value |-> value, callback |-> callback,
     ids |-> ids]

\* what the loop did with one chunk: the calls onTagReadRef.current?.(id) it
\* made, in order (none when no callback is registered)
Dispatched(port, value, callback, ids) ==
    [op |-> "read", port |-> port, value |-> value, callback |-> callback,
     ids |-> IF callback = Null THEN <<>> ELSE ids]

\* finally { reader.releaseLock(); readerRef.current = null }
loopExit(port) ==
    /\ loop' = [loop EXCEPT ![port] = "none"]
    /\ readerRef' = Null

\* read() resolved with a chunk: decode, frame, extract, dispatch, then the
\* next turn of the loop (break on the abort flag, else the next read()).
ReadChunk(port, value) ==
    /\ ~Pending
    /\ loop[port] = "reading"
    /\ LET segs == split(readBuffer[port] \o decode(value))
           ids == idsOf(trimmedLines(butLast(segs)))
       IN  /\ Len(lastOf(segs)) <= MaxBuffer
           /\ readBuffer' = [readBuffer EXCEPT ![port] = lastOf(segs)]
           /\ out' = Dispatched(port, value, onTagReadRef, ids)
    /\ IF abortRef THEN loopExit(port) ELSE UNCHANGED << loop, readerRef >>
    /\ UNCHANGED << hasSerial, mounted, cookie, isSupported, isConnected,
                    isReconnecting, error, onTagReadRef, portRef, writerRef,
                    abortRef, portOpen, conn, disc, auto, cancelled >>

\* mutant: a loop that forgets the stored identity at the end of the data
ReadDone_Clears(port) ==
    /\ ~Pending
    /\ loop[port] \in {"reading", "cancelled"}
    /\ loopExit(port)
    /\ cookie' = clearSerialFilterCookie
    /\ UNCHANGED << hasSerial, mounted, isSupported, isConnected,
                    isReconnecting, error, onTagReadRef, portRef, writerRef,
                    abortRef, portOpen, readBuffer, conn, disc, auto,
                    cancelled, out >>

\* read() resolved with done
ReadDone(port) ==
    /\ ~Pending
    /\ loop[port] \in {"reading", "cancelled"}
    /\ loopExit(port)
    /\ UNCHANGED << hasSerial, mounted, cookie, isSupported, isConnected,
                    isReconnecting, error, onTagReadRef, portRef, writerRef,
                    abortRef, portOpen, readBuffer, conn, disc, auto,
                    cancelled, out >>

\* mutant: a loop that reports a read failure also when aborted
ReadError_Always(port, e) ==
    /\ ~Pending
    /\ loop[port] \in {"reading", "cancelled"}
    /\ loopExit(port)
    /\ error' = messageOf(e, SerialReadError)
    /\ UNCHANGED << hasSerial, mounted, cookie, isSupported, isConnected,
                    isReconnecting, onTagReadRef, portRef, writerRef, abortRef,
                    portOpen, readBuffer, conn, disc, auto, cancelled, out >>

\* read() rejected
ReadError(port, e) ==
    /\ ~Pending
    /\ loop[port] \in {"reading", "cancelled"}
    /\ loopExit(port)
    /\ error' = IF abortRef THEN error ELSE messageOf(e, SerialReadError)
    /\ UNCHANGED << hasSerial, mounted, cookie, isSupported, isConnected,
                    isReconnecting, onTagReadRef, portRef, writerRef, abortRef,
                    portOpen, readBuffer, conn, disc, auto, cancelled, out >>

(***************************************************************************)
(* The specifications.  Lifecycle(ports) is every step of connect(),       *)
(* disconnect(), the automatic reconnect and the unmount on a machine with *)
(* these ports.  send() and setOnTagRead() write nothing the lifecycle     *)
(* reads, and the lifecycle does not read the data of a chunk.             *)
(***************************************************************************)
Lifecycle(ports) ==
    \/ connect
    \/ \E port \in ports : ConnectRequestPortOk(port)
    \/ \E e \in Rejections : ConnectRequestPortFail(e)
    \/ ConnectOpenOk
    \/ \E e \in Rejections : ConnectOpenFail(e)
    \/ \E granted \in SUBSET ports : AutoGetPortsOk(granted)
    \/ AutoGetPortsFail
    \/ AutoOpenOk
    \/ AutoOpenFail
    \/ AutoFinally
    \/ Unmount
    \/ disconnect
    \/ DisconnectAfterCancel
    \/ DisconnectAfterWriterClose
    \/ \E closed \in BOOLEAN : DisconnectAfterPortClose(closed)
    \/ \E port \in ports : ReadDone(port)
    \/ \E port \in ports, e \in Rejections : ReadError(port, e)

\* The session on a machine with both ports.
Next ==
    \/ Lifecycle(Ports)
    \/ \E port \in Ports, value \in SomeChunk : ReadChunk(port, value)

Spec == Init /\ [][Next]_vars

\* send() on a machine with the USB reader alone.
NextSend ==
    \/ Lifecycle({"p1"})
    \/ \E value \in SomeChunk : ReadChunk("p1", value)
    \/ \E text \in SendTexts, written \in BOOLEAN : send(text, written)

SpecSend == Init /\ [][NextSend]_vars

\* The read loop and its consumer on a machine with the USB reader alone.
NextRead ==
    \/ Lifecycle({"p1"})
    \/ \E value \in Chunks : ReadChunk("p1", value)
    \/ \E callback \in Callbacks \cup {Null} : setOnTagRead(callback)

SpecRead == Init /\ [][NextRead]_vars

\* The framing and the extraction alone: a page without a stored filter
\* that connects the USB reader, registers consumers and reads.
NextFrame ==
    \/ connect
    \/ ConnectRequestPortOk("p1")
    \/ \E e \in Rejections : ConnectRequestPortFail(e)
    \/ ConnectOpenOk
    \/ \E e \in Rejections : ConnectOpenFail(e)
    \/ \E value \in Chunks : ReadChunk("p1", value)
    \/ \E callback \in Callbacks \cup {Null} : setOnTagRead(callback)

SpecFrame == InitWith({NoCookie}) /\ [][NextFrame]_vars

\* Sessions of connect() and disconnect() on a machine with both ports and a
\* consumer, with nothing stored at startup (no automatic reconnect).
NextSessions ==
    \/ connect
    \/ \E port \in Ports : ConnectRequestPortOk(port)
    \/ \E e \in Rejections : ConnectRequestPortFail(e)
    \/ ConnectOpenOk
    \/ \E e \in Rejections : ConnectOpenFail(e)
    \/ disconnect
    \/ DisconnectAfterCancel
    \/ DisconnectAfterWriterClose
    \/ \E closed \in BOOLEAN : DisconnectAfterPortClose(closed)
    \/ \E port \in Ports : ReadDone(port)
    \/ \E port \in Ports, e \in Rejections : ReadError(port, e)
    \/ \E port \in Ports, value \in SomeChunk : ReadChunk(port, value)
    \/ \E callback \in {"A", Null} : setOnTagRead(callback)

SpecSessions == InitWith({NoCookie}) /\ [][NextSessions]_vars

(***************************************************************************)
(* ConnectionState, as the four flags of the context value show it.        *)
(***************************************************************************)
Unsupported == ~isSupported
Connected == isSupported /\ isConnected
Reconnecting == isSupported /\ isReconnecting
Disconnected == isSupported /\ ~isConnected /\ ~isReconnecting

\* a step in which connect() ends in its catch block
ConnectFails ==
    \E e \in Rejections : ConnectRequestPortFail(e) \/ ConnectOpenFail(e)

\* a step in which a disconnect() call returns; from is isConnected at the
\* time the call was made
DisconnectReturns(from) ==
    \/ disconnect /\ disc'.pc = "idle" /\ from = isConnected
    \/ /\ \/ DisconnectAfterCancel
          \/ DisconnectAfterWriterClose
          \/ \E closed \in BOOLEAN : DisconnectAfterPortClose(closed)
       /\ disc'.pc = "idle"
       /\ from = disc.from

(***************************************************************************)
(* Claims.                                                                 *)
(***************************************************************************)
\* C1: in every reachable state at most one device session is open: at most
\* one port of the machine is open.
C1_AtMostOneSessionOpen ==
    Cardinality({ p \in Ports : portOpen[p] }) <= 1

\* C2 as stated: whenever connect() succeeds, the state is Connected, the
\* error is none, the read loop has been started (it is reading, or it found
\* the abort flag set and left), and a device identity is persisted that
\* equals the ids of the opened port.
C2_Original ==
    [][ ConnectOpenOk =>
          /\ Connected'
          /\ error' = Null
          /\ (loop'[conn.port] = "reading" \/ abortRef')
          /\ getSerialFilterFromCookie(cookie') # NoFilter
          /\ getSerialFilterFromCookie(cookie') = getInfo(conn.port) ]_vars

\* C2 as amended: whenever connect() succeeds, the state is Connected, the
\* error is none, the read loop has been started, and the persisted identity
\* equals the ids of the opened port when the port reports both ids; for a
\* port that reports none the stored value is left as it was.
C2_ConnectSuccess ==
    [][ ConnectOpenOk =>
          /\ Connected'
          /\ error' = Null
          /\ (loop'[conn.port] = "reading" \/ abortRef')
          /\ hasUsbIds(getInfo(conn.port))
                => getSerialFilterFromCookie(cookie') = getInfo(conn.port)
          /\ ~hasUsbIds(getInfo(conn.port)) => cookie' = cookie ]_vars

\* C2 witness: connect() has succeeded on the port without USB ids (only
\* connect() adopts it), and nothing is persisted.
C2_Witness ==
    /\ conn.pc = "idle"
    /\ Connected
    /\ portRef = "p2"
    /\ loop["p2"] = "reading"
    /\ error = Null
    /\ getSerialFilterFromCookie(cookie) = NoFilter

\* C3: whenever connect() fails, the persisted identity is cleared and the
\* call ends in Disconnected with an error message.
C3_ConnectFailure ==
    [][ ConnectFails =>
          /\ getSerialFilterFromCookie(cookie') = NoFilter
          /\ Disconnected'
          /\ error' # Null ]_vars

\* C4: a connect() made while Connected or Reconnecting starts no device
\* selection and leaves the connection state, the held port, reader and
\* writer and the persisted identity unchanged.
C4_ConnectOnlyFromDisconnected ==
    [][ (connect /\ (Connected \/ Reconnecting)) =>
          UNCHANGED << conn, isConnected, isReconnecting, portRef, readerRef,
                       writerRef, cookie >> ]_vars

\* C5: when a disconnect() made while Connected returns, the state is
\* Disconnected, the error is none and the reader, writer and port handles
\* are released (so that send() finds no writer).
C5_DisconnectFromConnected ==
    [][ (DisconnectReturns(TRUE) /\ isSupported) =>
          /\ Disconnected'
          /\ error' = Null
          /\ readerRef' = Null
          /\ writerRef' = Null
          /\ portRef' = Null ]_vars

\* C6: a disconnect() made while Disconnected returns at once without any
\* device I/O (no cancel, no close) and leaves Disconnected with no error.
C6_DisconnectIdempotent ==
    [][ (disconnect /\ Disconnected) =>
          /\ disc'.pc = "idle"
          /\ UNCHANGED << loop, portOpen >>
          /\ Disconnected'
          /\ error' = Null ]_vars

\* C7: send() writes bytes to a device only while Connected with a writer
\* held.
C7_SendOnlyWhenConnected ==
    [][ (\E text \in SendTexts : send(text, TRUE)) =>
          (Connected /\ writerRef # Null) ]_vars

\* C8: no public call raises to its caller; send() is the one call of the
\* model that can.
C8_NothingRaises ==
    out.op = "send" => ~out.raised

\* C9: the bytes send() writes are the bytes of the text, followed by one
\* line feed when the text does not end in one.
C9_SendTerminator ==
    (out.op = "send" /\ out.data # <<>>) =>
        LET text == out.text IN
        IF Len(text) > 0 /\ text[Len(text)] = "\n"
        THEN out.data = encode(text)
        ELSE out.data = encode(text) \o <<10>>

\* C9 witness: send("READ") has written "READ\n".
C9_Witness ==
    /\ out.op = "send"
    /\ out.text = <<"R", "E", "A", "D">>
    /\ out.data = <<82, 69, 65, 68, 10>>

\* C10: a chunk that is one line containing User ID: "<value>" gives the
\* consumer callback <value> trimmed, also when <value> is empty.
C10_UserIdAlwaysFires ==
    [][ \A value \in Chunks :
          LET segs == split(decode(value))
              line == trim(segs[1])
          IN  ( /\ ReadChunk("p1", value)
                /\ readBuffer["p1"] = <<>>
                /\ onTagReadRef # Null
                /\ Len(segs) = 2 /\ segs[2] = <<>>
                /\ USER_ID_REGEX(line) # <<>> )
              => out' = Dispatched("p1", value, onTagReadRef,
                                   <<trim(USER_ID_REGEX(line)[1])>>) ]_vars

\* a chunk that is one terminated line
OneLineChunk(value) ==
    LET segs == split(decode(value)) IN Len(segs) = 2 /\ segs[2] = <<>>

\* that line, trimmed
LineOf(value) == trim(split(decode(value))[1])

\* a step in which the loop of p1 reads the chunk value
Reads(value) ==
    /\ out'.op = "read"
    /\ out'.value = value
    /\ loop["p1"] = "reading"
    /\ UNCHANGED << onTagReadRef, conn, disc, auto, mounted, portOpen, error >>
    /\ ReadChunk("p1", value)

\* a step in which the loop of p1, with an empty readBuffer and a consumer
\* registered, reads the one-line chunk value
ReadsLine(value) ==
    /\ readBuffer["p1"] = <<>>
    /\ onTagReadRef # Null
    /\ OneLineChunk(value)
    /\ Reads(value)

\* the <value> of a line OK|READ|<value>
OkReadValue(t) == SubSeq(t, Len(OkReadLiteral) + 1, Len(t))

\* C11 as stated: every line OK|READ|<value> gives the consumer <value>
\* trimmed when that is not empty and nothing when it is; a line of neither
\* form gives nothing and sets no error.
C11_Original ==
    [][ \A value \in Chunks :
          ReadsLine(value) =>
            LET t == LineOf(value) IN
            /\ StartsAt(t, 1, OkReadLiteral) =>
                 out'.ids = IF trim(OkReadValue(t)) # <<>>
                            THEN <<trim(OkReadValue(t))>> ELSE <<>>
            /\ (~StartsAt(t, 1, OkReadLiteral) /\ USER_ID_REGEX(t) = <<>>) =>
                 (out'.ids = <<>> /\ error' = error) ]_vars

\* C11 as amended: a line OK|READ|<value> that holds no User ID: "..." (the
\* form checked first) and no carriage return inside <value> gives the
\* consumer <value> trimmed when that is not empty and nothing when it is;
\* with a carriage return inside <value> it gives nothing; a line of neither
\* form gives nothing and sets no error.
C11_OkReadExtraction ==
    [][ \A value \in Chunks :
          ReadsLine(value) =>
            LET t == LineOf(value)
                v == OkReadValue(t)
                cr == \E i \in 1..Len(v) : v[i] = "\r"
            IN
            /\ (StartsAt(t, 1, OkReadLiteral) /\ USER_ID_REGEX(t) = <<>> /\ ~cr) =>
                 out'.ids = IF trim(v) # <<>> THEN <<trim(v)>> ELSE <<>>
            /\ (StartsAt(t, 1, OkReadLiteral) /\ USER_ID_REGEX(t) = <<>> /\ cr) =>
                 out'.ids = <<>>
            /\ (~StartsAt(t, 1, OkReadLiteral) /\ USER_ID_REGEX(t) = <<>>) =>
                 (out'.ids = <<>> /\ error' = error) ]_vars

\* C11 witness: the loop has read OK|READ|A and called the consumer with A.
C11_Witness ==
    /\ out.op = "read"
    /\ out.value = encode(OkReadLiteral \o <<"A", "\n">>)
    /\ out.callback \in Callbacks
    /\ out.ids = << <<"A">> >>

\* the non-empty trimmed lines the loop takes from the chunks first and
\* then second, read one after the other with buffer in readBuffer
LinesOfTwo(buffer, first, second) ==
    LET a == split(buffer \o decode(first))
        b == split(lastOf(a) \o decode(second))
    IN  trimmedLines(butLast(a)) \o trimmedLines(butLast(b))

\* and the unterminated rest it keeps after them
RestOfTwo(buffer, first, second) ==
    lastOf(split(lastOf(split(buffer \o decode(first))) \o decode(second)))

\* the cut after byte k of value goes through a character of two bytes
CutsCharacter(value, k) == IsLead2(value[k]) /\ IsContinuation(value[k + 1])

\* C12 as stated: whatever the loop holds, a chunk read in one piece gives
\* the same non-empty trimmed lines, and leaves the same rest, as the same
\* bytes read in two chunks, for every place of the cut.
C12_Original ==
    [][ \A value \in Chunks :
          Reads(value) =>
            \A k \in 1..(Len(value) - 1) :
              /\ LinesOfTwo(readBuffer["p1"], SubSeq(value, 1, k),
                            SubSeq(value, k + 1, Len(value)))
                   = trimmedLines(butLast(split(readBuffer["p1"] \o decode(value))))
              /\ RestOfTwo(readBuffer["p1"], SubSeq(value, 1, k),
                           SubSeq(value, k + 1, Len(value)))
                   = readBuffer'["p1"] ]_vars

\* C12 as amended: the same, for every cut that does not go through a
\* character of more than one byte (so for every cut of an ASCII stream).
C12_ChunkIndependence ==
    [][ \A value \in Chunks :
          Reads(value) =>
            \A k \in 1..(Len(value) - 1) :
              ~CutsCharacter(value, k) =>
                /\ LinesOfTwo(readBuffer["p1"], SubSeq(value, 1, k),
                              SubSeq(value, k + 1, Len(value)))
                     = trimmedLines(butLast(split(readBuffer["p1"] \o decode(value))))
                /\ RestOfTwo(readBuffer["p1"], SubSeq(value, 1, k),
                             SubSeq(value, k + 1, Len(value)))
                     = readBuffer'["p1"] ]_vars

\* C12 witness: a line cut in the middle came in two chunks, User ID: "A and
\* then the closing quote with the line feed, and gave the one event A.
C12_Witness ==
    /\ out.op = "read"
    /\ out.value = encode(<<"\"", "\n">>)
    /\ out.ids = << <<"A">> >>
    /\ readBuffer["p1"] = <<>>

\* a step in which the automatic reconnect, not cancelled, finds no port
\* with the stored ids among the granted ones
AutoFindsNoMatch ==
    \E granted \in SUBSET Ports :
        /\ ~cancelled
        /\ matchingPort(granted, auto.savedFilter) = Null
        /\ AutoGetPortsOk(granted)

\* C13: when the automatic reconnect finds no matching port it ends in
\* Disconnected with no error, it opens no port, and the stored identity
\* is still in place.
C13_AutoReconnectNoMatch ==
    [][ AutoFindsNoMatch =>
          /\ Disconnected'
          /\ error' = Null
          /\ UNCHANGED portOpen
          /\ getSerialFilterFromCookie(cookie') = auto.savedFilter ]_vars

\* C14: when the automatic reconnect fails to open the matching port, the
\* stored identity is cleared, the error stays none and the state returns
\* to Disconnected: not connected when the open has failed, and not
\* reconnecting once the reconnect has finished.
C14_AutoReconnectOpenFails ==
    [][ /\ AutoOpenFail =>
             /\ getSerialFilterFromCookie(cookie') = NoFilter
             /\ error' = Null
             /\ ~isConnected'
        /\ (AutoFinally /\ ~cancelled) => ~isReconnecting' ]_vars

\* the non-empty trimmed lines a read of value terminates
LinesRead(value) ==
    trimmedLines(butLast(split(readBuffer["p1"] \o decode(value))))

\* the indexes of the lines among them that carry an event
EventsIn(lines) == { i \in 1..Len(lines) : dispatches(tagIdOf(lines[i])) }

\* C15: the registry holds the one callback registered last (none after
\* setOnTagRead(null)); every event of a chunk calls the callback held at
\* that time exactly once, and no callback is called when none is held.
C15_ConsumerRegistry ==
    [][ /\ \A callback \in Callbacks \cup {Null} :
             setOnTagRead(callback) => (onTagReadRef' = callback /\ out' = out)
        /\ \A value \in Chunks :
             Reads(value) =>
               /\ out'.callback = onTagReadRef
               /\ onTagReadRef = Null => out'.ids = <<>>
               /\ onTagReadRef # Null =>
                    Len(out'.ids) = Cardinality(EventsIn(LinesRead(value))) ]_vars

\* C15 witness: with B registered, the loop has read a line with an event
\* and called B.
C15_Witness ==
    /\ onTagReadRef = "B"
    /\ out.op = "read"
    /\ out.callback = "B"
    /\ Len(out.ids) = 1

\* C16: a chunk read while no consumer is registered calls nobody, sets no
\* error and keeps only its unterminated rest; registering a consumer calls
\* nobody; and a read calls the consumer for the lines terminated by that
\* read only.
C16_NoBuffering ==
    [][ /\ \A value \in Chunks :
             (Reads(value) /\ onTagReadRef = Null) =>
               /\ out'.ids = <<>>
               /\ error' = error
               /\ readBuffer'["p1"] =
                     lastOf(split(readBuffer["p1"] \o decode(value)))
        /\ \A callback \in Callbacks \cup {Null} :
             setOnTagRead(callback) => UNCHANGED << out, readBuffer >>
        /\ \A value \in Chunks :
             (Reads(value) /\ onTagReadRef # Null) =>
               out'.ids = idsOf(LinesRead(value)) ]_vars

\* C16 witness: OK|READ|A was read while no consumer was registered, nobody
\* was called, and a consumer has registered since.
C16_Witness ==
    /\ out.op = "read"
    /\ out.value = encode(OkReadLiteral \o <<"A", "\n">>)
    /\ out.callback = Null
    /\ out.ids = <<>>
    /\ onTagReadRef = "A"

\* C17: the calls made for a chunk are the events of its lines in the order
\* of the lines: the k-th call carries the id of the k-th line with an event.
C17_Order ==
    [][ \A value \in Chunks :
          (Reads(value) /\ onTagReadRef # Null) =>
            LET lines == LinesRead(value)
                hit == EventsIn(lines)
            IN  /\ Len(out'.ids) = Cardinality(hit)
                /\ \A i \in hit :
                     out'.ids[Cardinality({ j \in hit : j <= i })]
                       = tagIdOf(lines[i])[1] ]_vars

\* C17 witness: the chunk with the lines User ID: "A" and OK|READ|B gave
\* the calls A, B.
C17_Witness ==
    /\ out.op = "read"
    /\ out.callback \in Callbacks
    /\ out.ids = << <<"A">>, <<"B">> >>

\* C18 as stated: without the serial capability no step changes the
\* connection state, the error, the stored identity, a port or a read loop,
\* and send() writes nothing.
C18_Original ==
    [][ ~hasSerial =>
          /\ UNCHANGED << isSupported, isConnected, isReconnecting, error,
                          cookie, portOpen, loop >>
          /\ out'.op = "send" => out'.data = <<>> ]_vars

\* C18 as amended: without the serial capability the state is Unsupported
\* for ever and no step changes the connection state, the stored identity,
\* the handles, a port or a read loop, starts a device selection or a
\* reconnect, or writes; the error alone changes: connect() sets it to the
\* "not supported" message and disconnect() sets it to none.
C18_UnsupportedIsPermanent ==
    [][ ~hasSerial =>
          /\ Unsupported'
          /\ UNCHANGED << isSupported, isConnected, isReconnecting, cookie,
                          portOpen, loop, portRef, readerRef, writerRef,
                          conn, auto >>
          /\ out'.op = "send" => (out'.data = <<>> /\ ~out'.raised)
          /\ connect => error' = UnsupportedMessage
          /\ disconnect => error' = Null
          /\ error' \in {error, UnsupportedMessage, Null} ]_vars

\* C18 witness: on a platform without the capability connect() has been
\* called and has left its message.
C18_Witness ==
    /\ ~hasSerial
    /\ Unsupported
    /\ error = UnsupportedMessage

\* C19: the unmount of the provider that holds a port sets the abort flag
\* and closes that port (at once, or by a close then in flight).
C19_Teardown ==
    [][ (Unmount /\ portRef # Null) =>
          /\ abortRef'
          /\ ~portOpen'[portRef] \/ (disc'.pc = "portClose" /\ disc'.obj = portRef)
      ]_vars

Saves(filter) ==
    \/ /\ ConnectOpenOk
       /\ hasUsbIds(getInfo(conn.port))
       /\ filter = getInfo(conn.port)
    \/ /\ AutoOpenOk
       /\ ~cancelled
       /\ hasUsbIds(getInfo(auto.port))
       /\ filter = getInfo(auto.port)

\* a step in which clearSerialFilterCookie() runs
Clears == ConnectFails \/ AutoOpenFail

\* a stored value load() cannot use: no cookie, a value JSON.parse rejects,
\* or an object without a numeric vendor or product id
Malformed(stored) ==
    \/ stored.kind # "json"
    \/ stored.usbVendorId = Undefined
    \/ stored.usbProductId = Undefined

\* C21: load() returns the identity of the most recent save() while no
\* clear() has followed and the stored value is well-formed, and returns
\* absent in every other case (nothing stored, cleared, corrupt, a numeric
\* id missing); a save replaces whatever was stored before, and a clear
\* leaves what a second clear leaves.
C21_FilterStore ==
    [][ /\ \A p \in Ports :
              Saves(getInfo(p)) => getSerialFilterFromCookie(cookie') = getInfo(p)
        /\ Clears =>
              /\ getSerialFilterFromCookie(cookie') = NoFilter
              /\ clearSerialFilterCookie = cookie'
        /\ ~(Clears \/ \E p \in Ports : Saves(getInfo(p))) =>
              getSerialFilterFromCookie(cookie') = getSerialFilterFromCookie(cookie)
        /\ Malformed(cookie) => getSerialFilterFromCookie(cookie) = NoFilter
        /\ ~Malformed(cookie) =>
              getSerialFilterFromCookie(cookie) =
                  [usbVendorId |-> cookie.usbVendorId,
                   usbProductId |-> cookie.usbProductId] ]_vars

\* C21 witness: nothing usable was stored at startup (no automatic reconnect
\* ran), connect() has saved the ids of the port, and load() returns them.
C21_Witness ==
    /\ auto = AutoOff
    /\ hasSerial
    /\ Connected
    /\ portRef = "p1"
    /\ getSerialFilterFromCookie(cookie) = getInfo("p1")

\* C22: when a disconnect() call returns, the persisted identity is cleared:
\* load() returns absent, so the next startup does not reconnect on its own.
C22_DisconnectClears ==
    [][ (\E from \in BOOLEAN : DisconnectReturns(from)) =>
            getSerialFilterFromCookie(cookie') = NoFilter ]_vars

\* a step in which a read loop takes a chunk while the abort flag is set
ReadsAborted ==
    /\ abortRef
    /\ out'.op = "read"
    /\ \E port \in Ports : ReadChunk(port, out'.value)

\* C23: once disconnect() has set the abort flag, a read that settles with
\* data is discarded: no tag event is dispatched to the consumer, even when
\* the chunk holds complete tag lines.
C23_AbortedReadDiscarded ==
    [][ ReadsAborted => out'.ids = <<>> ]_vars

\* C24: the read loop runs only while Connected: in every state in which a
\* loop is waiting for a chunk, and so can dispatch a tag event, the
\* connection state is Connected (never Disconnected, Reconnecting or
\* Unsupported).
C24_LoopOnlyWhileConnected ==
    \A port \in Ports : loop[port] = "reading" => Connected

\* C25: the connection state is one value of four: isConnected and
\* isReconnecting are never both true, also not between a successful
\* automatic reopen and the end of the reconnect attempt.
C25_OneConnectionState ==
    ~(isConnected /\ isReconnecting)

\* a step of a read loop: a chunk read, the end of the data, or a read error
ReadLoopStep ==
    \E port \in Ports :
        \/ out'.op = "read" /\ ReadChunk(port, out'.value)
        \/ ReadDone(port)
        \/ \E e \in Rejections : ReadError(port, e)

\* C26: the read loop never changes the persisted identity, whatever it does
\* (read a chunk, frame, extract, dispatch, fail, meet the end of the data,
\* leave); the stored value changes only in a step of connect() or of the
\* automatic reconnect.
C26_ReadLoopKeepsIdentity ==
    [][ /\ ReadLoopStep => cookie' = cookie
        /\ cookie' # cookie => (Clears \/ \E p \in Ports : Saves(getInfo(p))) ]_vars

\* C26 witness: the loop of a session has read a chunk and then left on a
\* read error, and the identity the session stored is still there.
C26_Witness ==
    /\ Connected
    /\ portRef = "p1"
    /\ loop["p1"] = "none"
    /\ out.op = "read"
    /\ out.port = "p1"
    /\ error = SerialReadError
    /\ getSerialFilterFromCookie(cookie) = getInfo("p1")

\* C27: however connect() and disconnect() interleave, a session that has
\* just been opened (by connect() or by the automatic reconnect) is
\* Connected with its read loop running and the abort flag false; a
\* disconnect() that completed while connect() was waiting does not leave
\* the later success Connected with the flag set and the loop gone.
C27_ConnectedMeansReading ==
    [][ /\ ConnectOpenOk =>
              (Connected' /\ ~abortRef' /\ loop'[conn.port] = "reading")
        /\ (AutoOpenOk /\ ~cancelled) =>
              (Connected' /\ ~abortRef' /\ loop'[auto.port] = "reading") ]_vars

\* C28: every port the manager has opened is the port of the current
\* session or has been closed again: no port stays open that the manager
\* does not hold, also not when the automatic reconnect is cancelled by an
\* unmount while its open is pending.
C28_NoOpenPortUntracked ==
    \A port \in Ports : portOpen[port] => portRef = port

\* the pending request of the automatic reconnect settles
AutoSettles ==
    \/ \E granted \in SUBSET Ports : AutoGetPortsOk(granted)
    \/ AutoGetPortsFail
    \/ AutoOpenOk
    \/ AutoOpenFail
    \/ AutoFinally

\* The session when the device-list and open requests of the automatic
\* reconnect eventually settle.
SpecSettles == Init /\ [][Next]_vars /\ WF_vars(AutoSettles)

\* C29: the automatic reconnect always leaves Reconnecting: when its
\* device-list and open requests eventually settle, isReconnecting becomes
\* false on every path (match opened, open failed, no match, device list
\* failed, cancelled by unmount) and never becomes true again.
C29_ReconnectingEnds ==
    /\ <>[](~isReconnecting)
    /\ [][isReconnecting' => isReconnecting]_vars

\* C29 witness: the automatic reconnect has opened the matching port and
\* has finished; the state is Connected and no longer Reconnecting.
C29_Witness ==
    /\ auto = AutoDone
    /\ mounted
    /\ Connected
    /\ portRef = "p1"
    /\ ~isReconnecting
    /\ conn.pc = "idle"
    /\ error = Null

\* C30: when the stream of the session signals the end of the data while
\* Connected, the loop leaves and releases the reader, no error is set, and
\* the state stays Connected with port and writer still held until
\* disconnect() is called; no tag event is dispatched in that session
\* afterwards: only a loop that is waiting reads a chunk, and a loop starts
\* waiting only when a port is opened.
C30_EndOfData ==
    [][ /\ \A port \in Ports :
              (Connected /\ portRef = port /\ loop[port] = "reading" /\ ReadDone(port)) =>
                  /\ loop'[port] = "none"
                  /\ readerRef' = Null
                  /\ error' = error
                  /\ Connected'
                  /\ portRef' = port
                  /\ writerRef' = writerRef
                  /\ portOpen'[port]
        /\ (out'.op = "read" /\ \E port \in Ports : ReadChunk(port, out'.value)) =>
              loop[out'.port] = "reading"
        /\ \A port \in Ports :
              (loop[port] # "reading" /\ loop'[port] = "reading") =>
                  (~portOpen[port] /\ portOpen'[port])
        /\ \A port \in Ports :
              (Connected /\ portRef = port /\ loop[port] = "none" /\ disc.pc = "idle") =>
                  \/ Connected' /\ portRef' = port /\ writerRef' = writerRef
                  \/ disconnect ]_vars

=============================================================================
